---- MODULE Spec2Model ----
(***************************************************************************)
(* The <cheat-code> element of src/src/cheat-code.js as a state machine:   *)
(* the detector's fields, the page's event listeners, timers and animation *)
(* frames, and the keyboard and gamepad hardware around it.                *)
(*                                                                         *)
(* The specifications share the actions and differ in what the page        *)
(* delivers:                                                               *)
(*   Spec              a keyboard, the host's calls, attribute changes     *)
(*   SpecTimers        Spec, with interval timers that keep ticking        *)
(*   SpecGamepad       two gamepads, within one step of the clock          *)
(*   SpecGamepadLive   SpecGamepad, with frames that are always delivered  *)
(*   SpecGamepadClock  one gamepad and a running clock                     *)
(*   SpecStarpower     one gamepad on which the starpower buttons are      *)
(*                     entered twice                                       *)
(* Time is Date.now() in milliseconds.                                     *)
(***************************************************************************)
EXTENDS Integers, Sequences, FiniteSets, TLC

\* ------------------------------------------------------------------ bounds
\* Date.now() advances in steps of Step milliseconds, at most MaxSteps times.
Step == 500
MaxSteps == 3
\* entries is not allowed to grow past MaxEntries symbols.
MaxEntries == 3
\* loadConfetti() is invoked at most MaxLoads times.
MaxLoads == 2
\* At most MaxRaf animation-frame callbacks are pending at once.
MaxRaf == 1
\* The duration attribute, in seconds.
Duration == 1

\* ------------------------------------------------------- program constants
DefaultTimeLimit == 1000
IntervalScale == 1000
\* What `this.now` evaluates to: the field is never assigned.  The same value
\* stands for the NaN that arithmetic on it yields.
Undefined == -1

\* ------------------------------------------------------------ input sets
Keys == {"0", "1"}
\* event.key of a notification that carries no key.
MissingKey == "undefined"
KeyInputs == Keys \cup {"", MissingKey}
Devices == {0, 1}
\* The button indexes of a device, and those the hardware gets to press.
PadButtons == 0..7
PressButtons == {0, 1}
Types == {"keyboard", "gamepad", "touch"}
PatternAttrs == {"konamicode", "starpower", "0 1"}
TimeLimits == {Step, DefaultTimeLimit}
Handlers == {"keydown", "gamepadconnected", "gamepaddisconnected"}
Starpower == <<7, 1, 7, 0, 7, 2, 7, 3, 6>>

VARIABLES
  \* the element's fields
  type, pattern, timeLimit, gamepads, buttonState, entries, lastEntryTime, timer,
  \* the page: clock, listener registrations, interval timers, pending frames
  now, listeners, intervals, rafPending,
  \* the hardware: attached devices and the buttons held down on each
  attached, pressed,
  \* observers (no code reads them)
  patternAttr, lastArrival, stale, emitted, reEmit, run, err, stopped, destroyRun, listenRun,
  sinceMatch, scriptPos

fields == <<type, pattern, timeLimit, gamepads, buttonState, entries,
            lastEntryTime, timer>>
page == <<now, listeners, intervals, rafPending>>
hardware == <<attached, pressed>>
observers == <<patternAttr, lastArrival, stale, emitted, reEmit, run, err, stopped, destroyRun,
               listenRun, sinceMatch, scriptPos>>
vars == <<fields, page, hardware, observers>>

\* ------------------------------------------------------- pure functions
PatternMatcherNoDefault(p) ==
  CASE p = "starpower" -> "7 1 7 0 7 2 7 3 6"
    [] p = "konamicode" ->
         "ArrowUp ArrowUp ArrowDown ArrowDown ArrowLeft ArrowRight ArrowLeft ArrowRight b a Enter"
    [] OTHER -> ""

PatternMatcher(p) ==
  CASE p = "starpower" -> "7 1 7 0 7 2 7 3 6"
    [] p = "konamicode" ->
         "ArrowUp ArrowUp ArrowDown ArrowDown ArrowLeft ArrowRight ArrowLeft ArrowRight b a Enter"
    [] OTHER -> p

\* A symbol of entries: a key (a string) or a button index (a number).
KeySym(k) == [kind |-> "key", key |-> k, button |-> 0]
ButtonSym(i) == [kind |-> "button", key |-> "", button |-> i]

\* Array.prototype.join's conversion of one element to a string.
Str(sym) == IF sym.kind = "key" THEN sym.key ELSE ToString(sym.button)

RECURSIVE Join(_)
Join(s) ==
  IF s = <<>> THEN ""
  ELSE IF Len(s) = 1 THEN Str(s[1])
  ELSE Join(SubSeq(s, 1, Len(s) - 1)) \o " " \o Str(s[Len(s)])

CurrentCode(ents) == Join(ents)

\* if (key): undefined and "" are falsy.
Truthy(k) == k # MissingKey /\ k # ""

\* ------------------------------------------- the detector's mutable part
\* The fields a handler changes, with the observers that follow them.
Det ==
  [entries |-> entries, lastArrival |-> lastArrival, stale |-> stale,
   lastEntryTime |-> lastEntryTime,
   timer |-> timer, intervals |-> intervals, buttonState |-> buttonState,
   emitted |-> emitted, reEmit |-> reEmit]

\* Date.now() - this.lastEntryTime > this.timeLimit; false when the left side is NaN.
ExpiredInclusive(last) == last # Undefined /\ now - last >= timeLimit

Expired(last) == last # Undefined /\ now - last > timeLimit

CheckTime(d) ==
  IF Expired(d.lastEntryTime)
  THEN [d EXCEPT !.entries = <<>>, !.stale = FALSE]
  ELSE d

\* this.entries.push(sym).  The observers record when the symbol arrived and
\* whether it arrived more than timeLimit after the symbol now before it.
Push(d, sym) ==
  [d EXCEPT !.entries = Append(@, sym),
            !.stale = @ \/ (d.entries # <<>> /\ now - d.lastArrival > timeLimit),
            !.lastArrival = now]

LoadConfetti(d) ==
  [d EXCEPT !.timer = d.timer + 1,
            !.intervals = @ \cup {[id |-> d.timer + 1,
                                   end |-> now + Duration * IntervalScale]}]

CheckCodeAnyKey(d, key) ==
  LET d1 == [Push(d, KeySym(key)) EXCEPT !.lastEntryTime = now]
  IN IF CurrentCode(d1.entries) = pattern THEN LoadConfetti(d1) ELSE d1

\* checkCode that empties the buffer when it matches.
CheckCodeClearsOnMatch(d, key) ==
  IF Truthy(key)
  THEN LET d1 == [Push(d, KeySym(key)) EXCEPT !.lastEntryTime = now]
       IN IF CurrentCode(d1.entries) = pattern
          THEN [LoadConfetti(d1) EXCEPT !.entries = <<>>]
          ELSE d1
  ELSE d

CheckCode(d, key) ==
  IF Truthy(key)
  THEN LET d1 == [Push(d, KeySym(key)) EXCEPT !.lastEntryTime = now]
       IN IF CurrentCode(d1.entries) = pattern THEN LoadConfetti(d1) ELSE d1
  ELSE d

KeyboardInit(d, key) == CheckCode(CheckTime(d), key)

\* The event is handed to every registration of the handler.
RECURSIVE DispatchKey(_, _, _)
DispatchKey(d, key, n) ==
  IF n = 0 THEN d ELSE DispatchKey(KeyboardInit(d, key), key, n - 1)

ButtonPressed(d, id) ==
  LET d1 == CheckTime(d)
      d2 == [Push(d1, ButtonSym(id)) EXCEPT !.lastEntryTime = Undefined]
  IN IF CurrentCode(d2.entries) = pattern THEN LoadConfetti(d2) ELSE d2

\* One button of the snapshot of slot `slot`; hw is navigator.getGamepads().
ReadButton(d, hw, slot, b) ==
  IF <<slot, b>> \in hw.pressed
  THEN IF b \notin d.buttonState
       THEN ButtonPressed([d EXCEPT !.buttonState = @ \cup {b},
                                    !.emitted = @ \cup {<<slot, b>>},
                                    !.reEmit = @ \/ <<slot, b>> \in d.emitted],
                          b)
       ELSE d
  ELSE [d EXCEPT !.buttonState = @ \ {b}]

\* A forEach that visits the buttons from the highest index down.
RECURSIVE ReadButtonsDescending(_, _, _, _)
ReadButtonsDescending(d, hw, slot, b) ==
  IF b \notin PadButtons THEN d
  ELSE ReadButtonsDescending(ReadButton(d, hw, slot, Cardinality(PadButtons) - 1 - b),
                             hw, slot, b + 1)

\* buttons.forEach, from button b upward.
RECURSIVE ReadButtons(_, _, _, _)
ReadButtons(d, hw, slot, b) ==
  IF b \notin PadButtons THEN d
  ELSE ReadButtons(ReadButton(d, hw, slot, b), hw, slot, b + 1)

\* gamepadIndexes.forEach((item, index) => ...): position i of the n keys reads
\* slot i of navigator.getGamepads().
RECURSIVE ReadSlots(_, _, _, _)
ReadSlots(d, hw, i, n) ==
  IF i >= n THEN d
  ELSE IF i \notin hw.attached THEN ReadSlots(d, hw, i + 1, n)
  ELSE ReadSlots(ReadButtons(d, hw, i, 0), hw, i + 1, n)

\* The forEach of readGamepadValues over the keys of `pads`.
ReadGamepadValues(d, hw, pads) == ReadSlots(d, hw, 0, Cardinality(pads))

\* The frames readGamepadValues leaves pending when it returns.
Reschedule(pads) == IF Cardinality(pads) > 0 THEN rafPending + 1 ELSE rafPending

\* addEventListener: a callback already registered is not registered again,
\* and listen() passes the same bound function every time.
AddEventListenerAgain(l, h) == [l EXCEPT ![h] = @ + 1]

AddEventListener(l, h) == IF l[h] > 0 THEN l ELSE [l EXCEPT ![h] = 1]

\* removeEventListener: no effect when the callback is not registered.
RemoveEventListenerUnguarded(l, h) == [l EXCEPT ![h] = @ - 1]

RemoveEventListener(l, h) == [l EXCEPT ![h] = 0]

\* listen() whose switch has no default branch.
ListenListenersNoDefault(l, t) ==
  IF t = "gamepad"
  THEN AddEventListener(AddEventListener(l, "gamepadconnected"), "gamepaddisconnected")
  ELSE IF t = "keyboard" THEN AddEventListener(l, "keydown") ELSE l

ListenListeners(l, t) ==
  IF t = "gamepad"
  THEN AddEventListener(AddEventListener(l, "gamepadconnected"), "gamepaddisconnected")
  ELSE AddEventListener(l, "keydown")

DestroyListeners(l, t) ==
  IF t = "gamepad"
  THEN RemoveEventListener(RemoveEventListener(l, "gamepadconnected"),
                           "gamepaddisconnected")
  ELSE RemoveEventListener(l, "keydown")

Subscribed == \E h \in Handlers : listeners[h] > 0

\* ------------------------------------------------------------ observers
NoRun == [ok |-> FALSE, S |-> <<>>, first |-> 0, last |-> 0, fired |-> 0,
          firedLast |-> FALSE, lr |-> 0]

\* The keys delivered since the buffer was empty, each within timeLimit of the
\* one before it: the sequence S a claim about the keyboard speaks of.
RunAfterKey(k, d0, d1) ==
  IF ~Truthy(k) THEN run
  ELSE LET f == d1.timer - d0.timer
       IN IF d0.entries = <<>>
          THEN [ok |-> TRUE, S |-> <<k>>, first |-> now, last |-> now,
                fired |-> f, firedLast |-> f > 0, lr |-> listenRun]
          ELSE IF run.ok /\ now - run.last <= timeLimit
          THEN [run EXCEPT !.S = Append(@, k), !.last = now, !.fired = @ + f,
                           !.firedLast = f > 0]
          ELSE NoRun

Bump(n) == IF n < 2 THEN n + 1 ELSE n

Commit(d) ==
  /\ entries' = d.entries
  /\ lastArrival' = d.lastArrival
  /\ stale' = d.stale
  /\ lastEntryTime' = d.lastEntryTime
  /\ timer' = d.timer
  /\ intervals' = d.intervals
  /\ buttonState' = d.buttonState
  /\ emitted' = d.emitted
  /\ reEmit' = d.reEmit
  /\ sinceMatch' = IF d.timer > timer THEN "live" ELSE sinceMatch

\* ------------------------------------------------------------------ Init
\* The state the constructor leaves, on a page with no device attached.
Init ==
  /\ type = "keyboard"
  /\ pattern = PatternMatcher("konamicode")
  /\ timeLimit = DefaultTimeLimit
  /\ gamepads = {}
  /\ buttonState = {}
  /\ entries = <<>>
  /\ lastEntryTime = 0
  /\ timer = 0
  /\ now = 0
  /\ listeners = [h \in Handlers |-> 0]
  /\ intervals = {}
  /\ rafPending = 0
  /\ attached = {}
  /\ pressed = {}
  /\ patternAttr = "konamicode"
  /\ lastArrival = 0
  /\ stale = FALSE
  /\ emitted = {}
  /\ reEmit = FALSE
  /\ run = NoRun
  /\ err = FALSE
  /\ stopped = FALSE
  /\ destroyRun = 0
  /\ listenRun = 0
  /\ sinceMatch = "none"
  /\ scriptPos = 0

\* The same element created with type="gamepad" pattern="0 1".
InitGamepad ==
  /\ type = "gamepad"
  /\ pattern = PatternMatcher("0 1")
  /\ patternAttr = "0 1"
  /\ timeLimit = DefaultTimeLimit
  /\ gamepads = {}
  /\ buttonState = {}
  /\ entries = <<>>
  /\ lastEntryTime = 0
  /\ timer = 0
  /\ now = 0
  /\ listeners = [h \in Handlers |-> 0]
  /\ intervals = {}
  /\ rafPending = 0
  /\ attached = {}
  /\ pressed = {}
  /\ lastArrival = 0
  /\ stale = FALSE
  /\ emitted = {}
  /\ reEmit = FALSE
  /\ run = NoRun
  /\ err = FALSE
  /\ stopped = FALSE
  /\ destroyRun = 0
  /\ listenRun = 0
  /\ sinceMatch = "none"
  /\ scriptPos = 0

\* --------------------------------------------------------------- actions
\* Time passes.
Tick ==
  /\ now < MaxSteps * Step
  /\ now' = now + Step
  /\ err' = FALSE
  /\ UNCHANGED <<fields, listeners, intervals, rafPending, hardware, patternAttr,
                 lastArrival, stale, emitted, reEmit, run, stopped, destroyRun, listenRun, sinceMatch,
                 scriptPos>>

\* The pattern attribute is set: its converter is patternMatcher.
SetPattern(p) ==
  /\ p # patternAttr
  /\ pattern' = PatternMatcher(p)
  /\ patternAttr' = p
  /\ run' = NoRun
  /\ err' = FALSE
  /\ UNCHANGED <<type, timeLimit, gamepads, buttonState, entries, lastEntryTime,
                 timer, page, hardware, lastArrival, stale, emitted, reEmit, stopped, destroyRun,
                 listenRun, sinceMatch, scriptPos>>

\* The type attribute is set.  destroyRun and listenRun count the calls made
\* under the type the element now has.
SetType(t) ==
  /\ t # type
  /\ type' = t
  /\ destroyRun' = 0
  /\ listenRun' = 0
  /\ err' = FALSE
  /\ UNCHANGED <<pattern, timeLimit, gamepads, buttonState, entries, lastEntryTime,
                 timer, page, hardware, patternAttr, lastArrival, stale, emitted, reEmit, run, stopped,
                 sinceMatch, scriptPos>>

\* The timelimit attribute is set.
SetTimeLimit(l) ==
  /\ l # timeLimit
  /\ timeLimit' = l
  /\ run' = NoRun
  /\ err' = FALSE
  /\ UNCHANGED <<type, pattern, gamepads, buttonState, entries, lastEntryTime,
                 timer, page, hardware, patternAttr, lastArrival, stale, emitted,
                 reEmit, stopped, destroyRun, listenRun, sinceMatch, scriptPos>>

\* listen(), also from connectedCallback.
Listen ==
  /\ listeners' = ListenListeners(listeners, type)
  /\ stopped' = FALSE
  /\ destroyRun' = 0
  /\ listenRun' = Bump(listenRun)
  /\ err' = FALSE
  /\ UNCHANGED <<fields, now, intervals, rafPending, hardware, patternAttr,
                 lastArrival, stale, emitted, reEmit, run, sinceMatch, scriptPos>>

\* destroy() called by the host, also from disconnectedCallback.
Destroy ==
  /\ listeners' = DestroyListeners(listeners, type)
  /\ stopped' = TRUE
  /\ destroyRun' = Bump(destroyRun)
  /\ listenRun' = 0
  /\ sinceMatch' = IF sinceMatch = "live" THEN "hostStopped" ELSE sinceMatch
  /\ err' = FALSE
  /\ UNCHANGED <<fields, now, intervals, rafPending, hardware, patternAttr,
                 lastArrival, stale, emitted, reEmit, run, scriptPos>>

\* A key-down notification reaches the document.
KeyDown(k) ==
  /\ listeners["keydown"] > 0
  /\ LET d == DispatchKey(Det, k, listeners["keydown"])
     IN /\ Len(d.entries) <= MaxEntries
        /\ d.timer <= MaxLoads
        /\ Commit(d)
        /\ run' = RunAfterKey(k, Det, d)
  /\ err' = FALSE
  /\ UNCHANGED <<type, pattern, timeLimit, gamepads, now, listeners, rafPending,
                 hardware, patternAttr, stopped, destroyRun, listenRun, scriptPos>>

\* fireConfetti's test of the time left: timeLeft <= 0.
TimeLeftOverAlways(iv) == TRUE

TimeLeftOver(iv) == iv.end - now <= 0

\* One tick of an interval timer: fireConfetti(duration, end).
TimerFire(iv) ==
  /\ iv \in intervals
  /\ IF TimeLeftOver(iv)
     THEN /\ intervals' = {j \in intervals : j.id # timer}
          /\ listeners' = DestroyListeners(listeners, type)
          /\ stopped' = TRUE
          /\ destroyRun' = Bump(destroyRun)
          /\ listenRun' = 0
     ELSE UNCHANGED <<intervals, listeners, stopped, destroyRun, listenRun>>
  /\ err' = FALSE
  /\ UNCHANGED <<fields, now, rafPending, hardware, patternAttr, lastArrival, stale, emitted, reEmit,
                 run, sinceMatch, scriptPos>>

\* A press that ends (the button goes up, the device goes away) is forgotten.
ClearEmits(e, dev) == {x \in e : x[1] # dev}

\* gamepadConnected(event) followed by its readGamepadValues(), on hardware hw.
GamepadConnected(dev, hw) ==
  LET pads == gamepads \cup {dev}
      d == ReadGamepadValues([Det EXCEPT !.emitted = ClearEmits(@, dev)], hw, pads)
  IN /\ Len(d.entries) <= MaxEntries
     /\ d.timer <= MaxLoads
     /\ Reschedule(pads) <= MaxRaf
     /\ gamepads' = pads
     /\ Commit(d)
     /\ rafPending' = Reschedule(pads)
     /\ run' = IF d.entries # entries THEN NoRun ELSE run

\* A device is attached at index dev with the buttons btns held down; the page
\* dispatches gamepadconnected.
PadConnect(dev, btns) ==
  /\ dev \notin attached
  /\ LET hw == [attached |-> attached \cup {dev},
                pressed |-> pressed \cup {<<dev, b>> : b \in btns}]
     IN /\ attached' = hw.attached
        /\ pressed' = hw.pressed
        /\ IF listeners["gamepadconnected"] > 0
           THEN GamepadConnected(dev, hw)
           ELSE /\ emitted' = ClearEmits(emitted, dev)
                /\ UNCHANGED <<reEmit, gamepads, buttonState, entries, lastEntryTime, timer,
                               intervals, rafPending, lastArrival, stale, run, sinceMatch>>
  /\ err' = FALSE
  /\ UNCHANGED <<type, pattern, timeLimit, now, listeners, patternAttr, stopped,
                 destroyRun, listenRun, scriptPos>>

\* A device is detached; the page dispatches gamepaddisconnected.
PadDisconnect(dev) ==
  /\ dev \in attached
  /\ attached' = attached \ {dev}
  /\ pressed' = {x \in pressed : x[1] # dev}
  /\ emitted' = ClearEmits(emitted, dev)
  /\ reEmit' = reEmit
  /\ gamepads' = IF listeners["gamepaddisconnected"] > 0
                 THEN gamepads \ {dev} ELSE gamepads
  /\ err' = FALSE
  /\ UNCHANGED <<type, pattern, timeLimit, buttonState, entries, lastEntryTime,
                 timer, page, patternAttr, lastArrival, stale, run, stopped, destroyRun,
                 listenRun, sinceMatch, scriptPos>>

\* A button goes down, or up, on an attached device.
Press(dev, b) ==
  /\ dev \in attached
  /\ <<dev, b>> \notin pressed
  /\ pressed' = pressed \cup {<<dev, b>>}
  /\ err' = FALSE
  /\ UNCHANGED <<fields, page, attached, patternAttr, lastArrival, stale, emitted, reEmit, run,
                 stopped, destroyRun, listenRun, sinceMatch, scriptPos>>

Release(dev, b) ==
  /\ <<dev, b>> \in pressed
  /\ pressed' = pressed \ {<<dev, b>>}
  /\ emitted' = emitted \ {<<dev, b>>}
  /\ reEmit' = reEmit
  /\ err' = FALSE
  /\ UNCHANGED <<fields, page, attached, patternAttr, lastArrival, stale, run, stopped,
                 destroyRun, listenRun, sinceMatch, scriptPos>>

\* A frame callback that requests the next frame whatever it finds.
RafFireReschedules ==
  /\ rafPending > 0
  /\ rafPending' = rafPending
  /\ err' = ~err
  /\ UNCHANGED <<fields, now, listeners, intervals, hardware, patternAttr,
                 lastArrival, stale, emitted, reEmit, run, stopped, destroyRun, listenRun, sinceMatch,
                 scriptPos>>

\* The frame requested by readGamepadValues arrives.  The callback is the
\* method itself, not a bound function: it runs with `this` undefined and
\* throws a TypeError at its first statement.
RafFire ==
  /\ rafPending > 0
  /\ rafPending' = rafPending - 1
  /\ err' = TRUE
  /\ UNCHANGED <<fields, now, listeners, intervals, hardware, patternAttr,
                 lastArrival, stale, emitted, reEmit, run, stopped, destroyRun, listenRun, sinceMatch,
                 scriptPos>>

\* What the host does to the element, the clock and the timers.
Lifecycle ==
  \/ Tick
  \/ \E p \in PatternAttrs : SetPattern(p)
  \/ \E t \in Types : SetType(t)
  \/ \E l \in TimeLimits : SetTimeLimit(l)
  \/ Listen
  \/ Destroy
  \/ \E iv \in intervals : TimerFire(iv)

\* A page with a keyboard and no gamepad.
Next ==
  \/ Lifecycle
  \/ \E k \in KeyInputs : KeyDown(k)

Spec == Init /\ [][Next]_vars

\* The interval timer with id i ticks.
TimerTick(i) == \E iv \in intervals : iv.id = i /\ TimerFire(iv)

\* The same page where every interval timer that has not been cleared keeps
\* ticking.
SpecTimers == Init /\ [][Next]_vars /\ \A i \in 1..MaxLoads : WF_vars(TimerTick(i))

\* A page with two gamepads and no key-down notifications, all within one
\* step of the clock (sampling reads no time but through checkTime).
NextGamepad ==
  \/ Listen
  \/ Destroy
  \/ \E dev \in Devices, btns \in SUBSET PressButtons : PadConnect(dev, btns)
  \/ \E dev \in Devices : PadDisconnect(dev)
  \/ \E dev \in Devices, b \in PressButtons : Press(dev, b)
  \/ \E dev \in Devices, b \in PressButtons : Release(dev, b)
  \/ RafFire

SpecGamepad == InitGamepad /\ [][NextGamepad]_vars

\* The same page under a frame scheduler that runs every pending callback.
SpecGamepadLive == InitGamepad /\ [][NextGamepad]_vars /\ WF_vars(RafFire)

\* A page with one gamepad, at index 0, and a running clock.
NextGamepadClock ==
  \/ Tick
  \/ Listen
  \/ Destroy
  \/ \E iv \in intervals : TimerFire(iv)
  \/ \E btns \in SUBSET PressButtons : PadConnect(0, btns)
  \/ PadDisconnect(0)
  \/ \E b \in PressButtons : Press(0, b)
  \/ \E b \in PressButtons : Release(0, b)
  \/ RafFire

SpecGamepadClock == InitGamepad /\ [][NextGamepadClock]_vars

\* ------------------------------------------------ the starpower scenario
\* The element created with type="gamepad" pattern="starpower" and attached
\* to the document (connectedCallback has called listen()).
InitStarpower ==
  /\ type = "gamepad"
  /\ pattern = PatternMatcher("starpower")
  /\ patternAttr = "starpower"
  /\ timeLimit = DefaultTimeLimit
  /\ gamepads = {}
  /\ buttonState = {}
  /\ entries = <<>>
  /\ lastEntryTime = 0
  /\ timer = 0
  /\ now = 0
  /\ listeners = ListenListeners([h \in Handlers |-> 0], "gamepad")
  /\ intervals = {}
  /\ rafPending = 0
  /\ attached = {}
  /\ pressed = {}
  /\ lastArrival = 0
  /\ stale = FALSE
  /\ emitted = {}
  /\ reEmit = FALSE
  /\ run = NoRun
  /\ err = FALSE
  /\ stopped = FALSE
  /\ destroyRun = 0
  /\ listenRun = 1
  /\ sinceMatch = "none"
  /\ scriptPos = 0

\* The pattern is entered twice: each button goes down, then up.
ScriptLen == 4 * Len(Starpower)
ScriptButton(pos) == Starpower[((pos \div 2) % Len(Starpower)) + 1]

\* The next button of the script goes down, `gap` ms after the one before it;
\* the second entry starts once the first has aged out.
StarPress(gap) ==
  /\ 0 \in attached
  /\ scriptPos < ScriptLen
  /\ scriptPos % 2 = 0
  /\ now' = IF scriptPos = 2 * Len(Starpower) THEN now + timeLimit + Step ELSE now + gap
  /\ pressed' = pressed \cup {<<0, ScriptButton(scriptPos)>>}
  /\ scriptPos' = scriptPos + 1
  /\ err' = FALSE
  /\ UNCHANGED <<fields, listeners, intervals, rafPending, attached, patternAttr,
                 lastArrival, stale, emitted, reEmit, run, stopped, destroyRun,
                 listenRun, sinceMatch>>

StarRelease ==
  /\ scriptPos < ScriptLen
  /\ scriptPos % 2 = 1
  /\ pressed' = pressed \ {<<0, ScriptButton(scriptPos)>>}
  /\ emitted' = emitted \ {<<0, ScriptButton(scriptPos)>>}
  /\ scriptPos' = scriptPos + 1
  /\ err' = FALSE
  /\ UNCHANGED <<fields, page, attached, patternAttr, lastArrival, stale, reEmit,
                 run, stopped, destroyRun, listenRun, sinceMatch>>

NextStarpower ==
  \/ PadConnect(0, {})
  \/ \E gap \in {0, Step, timeLimit} : StarPress(gap)
  \/ StarRelease
  \/ RafFire

SpecStarpower == InitStarpower /\ [][NextStarpower]_vars

\* ---------------------------------------------------------------- claims
\* The claim's S joined by single spaces.
RECURSIVE Serialize(_)
Serialize(S) ==
  IF S = <<>> THEN ""
  ELSE IF Len(S) = 1 THEN Head(S)
  ELSE Head(S) \o " " \o Serialize(Tail(S))

\* C1: on a listening keyboard detector whose buffer is empty, when the keys
\* of S arrive with every gap <= timeLimit and S joined by spaces is the
\* pattern, loadConfetti is invoked exactly once, in the step that accepts
\* the last key of S and in no step before it.
KeyboardMatchOnce ==
  (run.ok /\ run.S # <<>> /\ Serialize(run.S) = pattern)
    => (run.fired = 1 /\ run.firedLast)

KeyboardMatchOnceWitness ==
  /\ run.ok
  /\ Len(run.S) = 2
  /\ Serialize(run.S) = pattern
  /\ run.fired = 1
  /\ run.last - run.first = timeLimit

\* C2: entries never holds two consecutive symbols that arrived more than
\* timeLimit apart, on the keyboard and on the gamepad path.
NoStaleGap == ~stale

\* C3 as claimed: after a match, and until the host calls destroy(), the
\* detector stays subscribed.
StaysListeningAfterMatch == sinceMatch = "live" => Subscribed

\* C3 as amended: the step that invokes the reaction leaves the subscriptions
\* as they are, and after a match a subscribed detector that the host has not
\* stopped loses its subscriptions only in a tick of a reaction timer at or
\* after that reaction's end time.
ListeningUntilReactionEnds ==
  [][/\ (timer' # timer => listeners' = listeners)
     /\ (sinceMatch = "live" /\ sinceMatch' = "live" /\ Subscribed /\ ~Subscribed')
          => \E iv \in intervals : TimerFire(iv) /\ iv.end <= now]_vars

ListeningUntilReactionEndsWitness ==
  sinceMatch = "live" /\ ~Subscribed /\ timer = 1 /\ intervals = {}

\* C4: once destroy() has returned, and until listen() is called again, no
\* symbol is appended to entries and loadConfetti is not invoked.
NoSymbolAfterStop ==
  [][stopped => /\ (entries' = entries \/ entries' = <<>>)
                /\ timer' = timer]_vars

\* C5: a button held down emits one symbol for that press, however many
\* sampling passes see it held and whatever other devices are connected.
EdgeTriggered == ~reEmit

\* C6: once the starpower buttons have been entered, every gap within
\* timeLimit, and no sampling pass is pending, the reaction has fired; once
\* they have been entered again after ageing out, it has fired twice.
StarpowerFires ==
  rafPending = 0 =>
    /\ (scriptPos >= 2 * Len(Starpower) => timer >= 1)
    /\ (scriptPos = ScriptLen => timer = 2)

\* C7: destroy() called when nothing is subscribed, or right after another
\* destroy(), throws nothing and leaves the subscriptions, entries and
\* lastEntryTime as they were.
StopIdempotent ==
  [][(Destroy /\ (destroyRun >= 1 \/ ~Subscribed))
       => (UNCHANGED <<listeners, entries, lastEntryTime>> /\ err' = FALSE)]_vars

StopIdempotentWitness == destroyRun = 2 /\ entries # <<>>

\* C8: however often listen() is called, each handler is registered at most
\* once, so a key-down notification is handled once: a key is appended once
\* and at most one reaction is invoked.
NoDuplicateSubscription ==
  [][/\ \A h \in Handlers : listeners'[h] <= 1
     /\ \A k \in KeyInputs :
          (Truthy(k) /\ KeyDown(k))
            => /\ (entries' = Append(entries, KeySym(k)) \/ entries' = <<KeySym(k)>>)
               /\ timer' <= timer + 1]_vars

NoDuplicateSubscriptionWitness ==
  run.ok /\ run.lr = 2 /\ Serialize(run.S) = pattern /\ run.fired = 1

\* C9: the pattern attribute resolves to the starpower and konamicode presets
\* by name, and to itself for any other string.
PresetResolution ==
  pattern =
    CASE patternAttr = "starpower" -> "7 1 7 0 7 2 7 3 6"
      [] patternAttr = "konamicode" ->
           "ArrowUp ArrowUp ArrowDown ArrowDown ArrowLeft ArrowRight ArrowLeft ArrowRight b a Enter"
      [] OTHER -> patternAttr

PresetResolutionWitness ==
  patternAttr = "starpower" /\ pattern = "7 1 7 0 7 2 7 3 6"

\* C10 as claimed: a key-down notification without a key changes neither
\* entries nor lastEntryTime, invokes no reaction and throws nothing.
MissingKeyIgnored ==
  [][\A k \in KeyInputs :
       (~Truthy(k) /\ KeyDown(k))
         => /\ entries' = entries
            /\ lastEntryTime' = lastEntryTime
            /\ timer' = timer
            /\ err' = FALSE]_vars

\* C10 as amended: such a notification leaves lastEntryTime alone, invokes no
\* reaction and throws nothing; it leaves entries alone unless more than
\* timeLimit has passed since lastEntryTime, and then it empties entries.
MissingKeyOnlyExpires ==
  [][\A k \in KeyInputs :
       (~Truthy(k) /\ KeyDown(k))
         => /\ entries' = IF lastEntryTime # Undefined /\ now - lastEntryTime > timeLimit
                           THEN <<>> ELSE entries
            /\ lastEntryTime' = lastEntryTime
            /\ timer' = timer
            /\ err' = FALSE]_vars

MissingKeyOnlyExpiresWitness == run.ok /\ run.S # <<>> /\ entries = <<>>

\* C11: for every type other than "gamepad", listen() subscribes the key-down
\* handler and no gamepad handler, and destroy() unsubscribes that handler
\* and no other.
KeyboardFallback ==
  [][type # "gamepad" =>
       /\ Listen => listeners' = [listeners EXCEPT !["keydown"] = 1]
       /\ Destroy => listeners' = [listeners EXCEPT !["keydown"] = 0]]_vars

KeyboardFallbackWitness ==
  /\ type = "touch"
  /\ listenRun >= 1
  /\ listeners = [h \in Handlers |-> IF h = "keydown" THEN 1 ELSE 0]
  /\ entries # <<>>

\* C12: while a device is in the Connected Devices Set, sampling goes on: a
\* button that is down on it is eventually accepted as a symbol, unless it
\* goes up or the device leaves first.
GamepadLiveness ==
  \A dev \in Devices, b \in PressButtons :
    (dev \in gamepads /\ <<dev, b>> \in pressed)
      ~> (<<dev, b>> \in emitted \/ <<dev, b>> \notin pressed \/ dev \notin gamepads)

\* The symbols a step appends to entries.
Appended == {entries'[i] : i \in (Len(entries) + 1)..Len(entries')}

\* C13: a sampling pass reads the snapshot of each device in the Connected
\* Devices Set: when a device connects as the only connected one, at whatever
\* index, each button held on it and not recorded as held is accepted.
SamplesConnectedDevice ==
  [][\A dev \in Devices, btns \in SUBSET PressButtons :
       (PadConnect(dev, btns) /\ listeners["gamepadconnected"] > 0 /\ gamepads = {})
         => \A b \in btns : b \notin buttonState => ButtonSym(b) \in Appended]_vars

\* C14: a gamepaddisconnected event discards the device's edge state: when
\* the last connected device leaves, buttonState is left empty, and when a
\* device then connects at index 0 every button held on it is accepted.
DisconnectDiscardsEdgeState ==
  [][/\ \A dev \in Devices :
          (PadDisconnect(dev) /\ listeners["gamepaddisconnected"] > 0 /\ gamepads = {dev})
            => buttonState' = {}
     /\ \A btns \in SUBSET PressButtons :
          (PadConnect(0, btns) /\ listeners["gamepadconnected"] > 0 /\ gamepads = {})
            => \A b \in btns : ButtonSym(b) \in Appended]_vars

From(S, n) == SubSeq(S, n, Len(S))

\* C16: the buffer is neither trimmed nor cleared by a match.  A key accepted
\* within timeLimit of the one before it makes the buffer one symbol longer
\* (after a longer gap the buffer is that key alone); it invokes no reaction
\* when it completes the pattern's symbols after one or more other symbols of
\* its run, nor when the run has matched already.
NeverTrimmed ==
  [][\A k \in KeyInputs :
       (Truthy(k) /\ KeyDown(k))
         => /\ Len(entries') = IF now - lastEntryTime > timeLimit
                                THEN 1 ELSE Len(entries) + 1
            /\ (/\ run'.ok
                /\ \E n \in 2..Len(run'.S) : Serialize(From(run'.S, n)) = pattern)
                 => timer' = timer
            /\ (run.ok /\ run.fired >= 1 /\ now - run.last <= timeLimit)
                 => timer' = timer]_vars

NeverTrimmedWitness ==
  /\ run.ok
  /\ Len(run.S) = 3
  /\ Serialize(From(run.S, 2)) = pattern
  /\ run.fired = 0

\* The button indexes of S as the strings join() makes of them.
Digits(S) == [i \in 1..Len(S) |-> ToString(S[i].button)]

\* C17: every step keeps the symbols entries holds, in their order, and adds
\* the newly accepted ones behind them; the reaction is invoked once for every
\* new symbol at which the buffer up to that symbol reads as the pattern; and
\* the pass of a device that connects alone at index 0 appends the buttons
\* that show a rising edge, each once, in ascending index order.
ArrivalOrder ==
  [][LET new == SubSeq(entries', Len(entries) + 1, Len(entries'))
     IN /\ Len(entries') >= Len(entries)
        /\ SubSeq(entries', 1, Len(entries)) = entries
        /\ timer' - timer =
             Cardinality({n \in (Len(entries) + 1)..Len(entries') :
                            Serialize(Digits(SubSeq(entries', 1, n))) = pattern})
        /\ \A btns \in SUBSET PressButtons :
             (PadConnect(0, btns) /\ listeners["gamepadconnected"] > 0 /\ gamepads = {})
               => /\ {new[i].button : i \in DOMAIN new} = {b \in btns : b \notin buttonState}
                  /\ \A i, j \in DOMAIN new : i < j => new[i].button < new[j].button]_vars

ArrivalOrderWitness ==
  /\ entries = <<ButtonSym(0), ButtonSym(1), ButtonSym(0)>>
  /\ timer = 1
  /\ emitted = {<<0, 1>>, <<1, 0>>}

\* C18: every interval timer loadConfetti starts is cleared once its end time
\* has passed, also when a second match starts another timer before then.
TimersCleared ==
  \A i \in 1..MaxLoads :
    (\E iv \in intervals : iv.id = i /\ iv.end <= now)
      ~> ~(\E iv \in intervals : iv.id = i)

\* C19: when destroy() returns, none of the three handlers is subscribed,
\* whatever listen() calls and changes of type came before it.
StopRemovesSubscriptions ==
  [][Destroy => \A h \in Handlers : listeners'[h] = 0]_vars

====
